---- MODULE Spec2Model ----
(***************************************************************************)
(* A model of Streamlit.py: the "Structure" page, an editable, filtered    *)
(* and paginated grid over the Snowflake table SampleTest.  The state is   *)
(* the table in the database, the Streamlit session state and the search  *)
(* box; every user event runs the script once (and once more after         *)
(* st.rerun()), and each action below is one such event handled to the     *)
(* end.  The variables `run` and `sv` record what the last event's run did *)
(* (messages shown, uncaught exception, connections left open, and what    *)
(* update_changed_cells computed and executed).                            *)
(***************************************************************************)
EXTENDS Integers, Sequences, FiniteSets, TLC

VARIABLES db, cols, page_structure, show_add_column_modal, search, saves, run, sv

vars == <<db, cols, page_structure, show_add_column_modal, search, saves, run, sv>>

-----------------------------------------------------------------------------
(* Bounds of the model *)

\* rows of the table SampleTest when the session starts
MaxRows == 4
\* cells the user edits in the grid before one click on Save
MaxEdits == 2
\* clicks on Save, in one session, that reach update_changed_cells
MaxSaves == 1

-----------------------------------------------------------------------------
(* Values.  A string is a sequence of one-character strings; a cell is a   *)
(* string or a null, and pandas has two nulls, None and NaN.               *)

Range(s) == {s[i] : i \in DOMAIN s}

StrV(s) == [k |-> "str", s |-> s]

NONE == [k |-> "None", s |-> <<>>]

NAN == [k |-> "NaN", s |-> <<>>]

SQLNULL == [k |-> "NULL", s |-> <<>>]

NullReps == {NONE, NAN}

\* pd.isna
IsNa(v) == v.k \in {"None", "NaN"}

\* Python's != on two scalars: NaN is unequal to everything, itself included
PyNe(a, b) == IF a.k = "NaN" \/ b.k = "NaN" THEN TRUE ELSE a # b

\* astype(str) on a cell
AsStr(v) ==
    CASE v.k = "None" -> <<"N", "o", "n", "e">>
      [] v.k = "NaN" -> <<"n", "a", "n">>
      [] OTHER -> v.s

LowerChar(ch) ==
    CASE ch = "A" -> "a"
      [] ch = "B" -> "b"
      [] ch = "F" -> "f"
      [] ch = "N" -> "n"
      [] ch = "O" -> "o"
      [] ch = "R" -> "r"
      [] ch = "Z" -> "z"
      [] OTHER -> ch

\* str.contains(search, case=False) for a keyword without regex metacharacters
Contains(hay, needle) ==
    \E i \in 0..(Len(hay) - Len(needle)) :
        \A j \in 1..Len(needle) : LowerChar(hay[i + j]) = LowerChar(needle[j])

\* the row filter of line 147
RowMatches(row, cs, kw) ==
    \E i \in DOMAIN cs : Contains(AsStr(row[cs[i]]), kw)

\* what pd.read_sql returns for a stored cell of a string column: NULL
\* becomes None
FromSql(v) == IF v.k = "NULL" THEN NONE ELSE v

\* what the driver binds for a Python value
ToSql(v) == IF IsNa(v) THEN SQLNULL ELSE v

\* SQL's = in a WHERE clause: a comparison with NULL is never true
SqlEq(cell, param) == cell.k # "NULL" /\ param.k # "NULL" /\ cell = param

-----------------------------------------------------------------------------
(* Program constants *)

rows_per_page == 3

unique_col == "CODE"

-----------------------------------------------------------------------------
(* The inputs of the model *)

Digit(i) == <<"1", "2", "3", "4", "5", "6", "7", "8", "9">>[i]

Key(i) == <<"A", Digit(i)>>

Foo == <<"f", "o", "o">>

Bar == <<"b", "a", "r">>

\* the table SampleTest as the session finds it: n rows with distinct codes
SeedRow(i) ==
    [c \in {"NAME", "CODE"} |->
        IF c = "CODE" THEN StrV(Key(i))
        ELSE IF i % 2 = 1 THEN StrV(Foo) ELSE SQLNULL]

SeedTable(n) == [i \in 1..n |-> SeedRow(i)]

\* what the user types into a grid cell of column c
NewVal(c) == IF c = unique_col THEN StrV(Key(2)) ELSE StrV(Bar)

\* what the user types into the filter box
Keywords == {<<>>, <<"F", "O", "O">>, <<"z", "z">>}

\* what the user types into the "new column" form
ColumnNames == {"", "EXTRA", "NAME"}

-----------------------------------------------------------------------------
(* get_data *)

\* the outcome of get_data("SampleTest"): the snapshot, or the exception
\* that leaves it, and the connections it leaves open
get_data(t, fault) ==
    CASE fault = "connect" ->
            [ok |-> FALSE, exc |-> "ConnectError", leaked |-> 0, df |-> <<>>]
      [] fault = "query" ->
            [ok |-> FALSE, exc |-> "QueryError", leaked |-> 1, df |-> <<>>]
      [] OTHER ->
            [ok |-> TRUE, exc |-> "none", leaked |-> 0,
             df |-> [i \in DOMAIN t |->
                       [c \in DOMAIN t[i] |-> FromSql(t[i][c])]]]

GetFaults == {"none", "connect", "query"}

-----------------------------------------------------------------------------
(* Filter and pagination *)

\* the positions (in df1) of the rows of df1_filtered, in order
RECURSIVE FilteredIdx(_, _, _, _)
FilteredIdx(df, cs, kw, i) ==
    IF i > Len(df) THEN <<>>
    ELSE IF kw = <<>> \/ RowMatches(df[i], cs, kw)
         THEN <<i>> \o FilteredIdx(df, cs, kw, i + 1)
         ELSE FilteredIdx(df, cs, kw, i + 1)

Filtered(df, cs, kw) ==
    LET idx == FilteredIdx(df, cs, kw, 1)
    IN  [j \in 1..Len(idx) |-> df[idx[j]]]

\* math.ceil(total_rows / rows_per_page)
total_pages(total_rows) == (total_rows + rows_per_page - 1) \div rows_per_page

\* df1_filtered.iloc[start_idx:end_idx]
PageOf(filtered, page) ==
    LET start_idx == page * rows_per_page
        end_idx == start_idx + rows_per_page
        lo == IF start_idx < Len(filtered) THEN start_idx ELSE Len(filtered)
        hi == IF end_idx < Len(filtered) THEN end_idx ELSE Len(filtered)
    IN  [j \in 1..(hi - lo) |-> filtered[lo + j]]

\* grid_response["data"]: the page with the user's edits; the grid hands a
\* null cell back as None or as NaN
GridData(df_page, edits, rep) ==
    [i \in DOMAIN df_page |->
        [c \in DOMAIN df_page[i] |->
            IF <<i, c>> \in DOMAIN edits THEN edits[<<i, c>>]
            ELSE IF IsNa(df_page[i][c]) THEN rep
            ELSE df_page[i][c]]]

-----------------------------------------------------------------------------
(* update_changed_cells: the change reconciler (lines 57-78) *)

\* CellChanged without the pd.isna test of line 67
CellChangedNoNa(a, b) == PyNe(a, b)

\* CellChanged with line 67 testing for None instead of pd.isna
CellChangedNoneOnly(a, b) == ~(a = NONE /\ b = NONE) /\ PyNe(a, b)

\* lines 67-70: a cell is a change unless both sides are null or they compare equal
CellChanged(a, b) == ~(IsNa(a) /\ IsNa(b)) /\ PyNe(a, b)

\* ChangeKey reading the edited row
ChangeKeyEdited(original_row, edited_row, u) == edited_row[u]

\* lines 72 and 75: the key of a change is the original row's unique-column value
ChangeKey(original_row, edited_row, u) == original_row[u]

\* NewValue reading the original row
NewValueOriginal(original_row, edited_row, c) == original_row[c]

\* lines 70 and 77: the new value of a change is the edited cell
NewValue(original_row, edited_row, c) == edited_row[c]

\* lines 65-78 for one row: its changes, in the order of original_df.columns
row_changes(original_row, edited_row, cs, u) ==
    LET ch == SelectSeq(cs, LAMBDA c : CellChanged(original_row[c], edited_row[c]))
    IN  [j \in 1..Len(ch) |->
            [key |-> ChangeKey(original_row, edited_row, u),
             column |-> ch[j],
             new_value |-> NewValue(original_row, edited_row, ch[j])]]

\* line 64: edited_df.loc[i] raises KeyError for a row the edited frame lacks
RaisesKeyError(original_df, edited_df) == Len(edited_df) < Len(original_df)

\* lines 62-78: the changes of rows i.. , in row order
RECURSIVE Changes(_, _, _, _, _)
Changes(original_df, edited_df, cs, u, i) ==
    IF i > Len(original_df) \/ i > Len(edited_df) THEN <<>>
    ELSE row_changes(original_df[i], edited_df[i], cs, u)
            \o Changes(original_df, edited_df, cs, u, i + 1)

\* the changes of each compared row, row by row (their concatenation is the
\* list `changes` of line 60)
ByRow(original_df, edited_df, cs, u) ==
    [i \in {j \in DOMAIN original_df : j <= Len(edited_df)} |->
        row_changes(original_df[i], edited_df[i], cs, u)]

\* lines 59 and 72: the set updated_keys
updated_keys(original_df, edited_df, cs, u) ==
    {original_df[i][u] :
        i \in {j \in DOMAIN original_df :
                 j <= Len(edited_df)
                 /\ row_changes(original_df[j], edited_df[j], cs, u) # <<>>}}

-----------------------------------------------------------------------------
(* update_changed_cells: the update applier (lines 80-99) *)

\* lines 85-90: UPDATE SampleTest SET column = new_value WHERE u = key
ExecUpdate(t, change, u) ==
    [i \in DOMAIN t |->
        IF SqlEq(t[i][u], ToSql(change.key))
        THEN [t[i] EXCEPT ![change.column] = ToSql(change.new_value)]
        ELSE t[i]]

\* the table after the first n statements of the batch
RECURSIVE ExecFirst(_, _, _, _)
ExecFirst(t, changes, u, n) ==
    IF n = 0 THEN t
    ELSE ExecUpdate(ExecFirst(t, changes, u, n - 1), changes[n], u)

\* the database call of lines 81-91 that fails, for a batch of n statements:
\* at: the failing call; k: the failing statement; autocommit: the session's
\* setting, which decides what a connection closed without a commit leaves
NoFault == [at |-> "none", k |-> 0, autocommit |-> FALSE]

SaveFaults(n) ==
    {[at |-> a, k |-> 0, autocommit |-> FALSE] : a \in {"none", "connect", "cursor"}}
        \cup {[at |-> "execute", k |-> k, autocommit |-> b] :
                 k \in 1..n, b \in BOOLEAN}
        \cup {[at |-> "commit", k |-> 0, autocommit |-> b] : b \in BOOLEAN}

\* what a connection closed without a successful commit leaves in the table:
\* with autocommit (the driver's default, and get_connection does not set
\* it) every executed statement is already durable, without it none is
Uncommitted(t, executed, autocommit) == IF autocommit THEN executed ELSE t

NoSave ==
    [called |-> FALSE, keyerr |-> FALSE, original |-> <<>>, edited |-> <<>>,
     byrow |-> <<>>, changes |-> <<>>, conns |-> 0, stmts |-> <<>>, failed |-> "none",
     committed |-> FALSE, reported |-> 0, before |-> <<>>, idx |-> <<>>]

\* update_changed_cells(original_df, edited_df, "SampleTest", u) on table t
update_changed_cells(t, original_df, edited_df, cs, u, f) ==
    LET batch == Changes(original_df, edited_df, cs, u, 1)
        n == Len(batch)
        base == [NoSave EXCEPT !.called = TRUE, !.original = original_df,
                               !.edited = edited_df, !.changes = batch,
                               !.byrow = ByRow(original_df, edited_df, cs, u),
                               !.before = t]
        out(s, msgs, exc, leaked, t2) ==
            [sv |-> s, msgs |-> msgs, exc |-> exc, leaked |-> leaked, db |-> t2]
    IN  IF RaisesKeyError(original_df, edited_df)
        THEN out([base EXCEPT !.keyerr = TRUE], {}, "KeyError", 0, t)
        ELSE IF n = 0
        THEN out(base, {"info_no_changes"}, "none", 0, t)
        ELSE CASE f.at = "connect" ->
                    out(base, {}, "ConnectError", 0, t)
               [] f.at = "cursor" ->
                    out([base EXCEPT !.conns = 1], {}, "CursorError", 1, t)
               [] f.at = "execute" ->
                    out([base EXCEPT !.conns = 1, !.failed = "execute",
                                     !.stmts = SubSeq(batch, 1, f.k)],
                        {"error_update"}, "none", 0,
                        Uncommitted(t, ExecFirst(t, batch, u, f.k - 1), f.autocommit))
               [] f.at = "commit" ->
                    out([base EXCEPT !.conns = 1, !.failed = "commit",
                                     !.stmts = batch],
                        {"error_update"}, "none", 0,
                        Uncommitted(t, ExecFirst(t, batch, u, n), f.autocommit))
               [] OTHER ->
                    out([base EXCEPT !.conns = 1, !.stmts = batch,
                                     !.committed = TRUE,
                                     !.reported =
                                        Cardinality(updated_keys(original_df, edited_df, cs, u))],
                        {"success_update"}, "none", 0,
                        ExecFirst(t, batch, u, n))

-----------------------------------------------------------------------------
(* add_column_to_snowflake (lines 102-113) *)

AddFaults == {"none", "connect", "cursor", "execute"}

\* ALTER TABLE SampleTest ADD COLUMN column_name STRING
AlterAddColumn(t, column_name) ==
    [i \in DOMAIN t |->
        [c \in DOMAIN t[i] \cup {column_name} |->
            IF c = column_name THEN SQLNULL ELSE t[i][c]]]

\* the outcome of add_column_to_snowflake: returned says whether the call
\* returns (FALSE: the finally block raised, cursor being unbound)
add_column_to_snowflake(t, cs, column_name, fault) ==
    CASE fault = "connect" ->
            [returned |-> FALSE, msgs |-> {"error_add_column"},
             exc |-> "UnboundLocalError", leaked |-> 0, db |-> t, cols |-> cs]
      [] fault = "cursor" ->
            [returned |-> FALSE, msgs |-> {"error_add_column"},
             exc |-> "UnboundLocalError", leaked |-> 1, db |-> t, cols |-> cs]
      [] fault = "execute" \/ column_name \in Range(cs) ->
            [returned |-> TRUE, msgs |-> {"error_add_column"},
             exc |-> "none", leaked |-> 0, db |-> t, cols |-> cs]
      [] OTHER ->
            [returned |-> TRUE, msgs |-> {"success_add_column"},
             exc |-> "none", leaked |-> 0,
             db |-> AlterAddColumn(t, column_name), cols |-> Append(cs, column_name)]

-----------------------------------------------------------------------------
(* The session *)

Quiet == [msgs |-> {}, exc |-> "none", leaked |-> 0]

Init ==
    /\ \E n \in 0..MaxRows : db = SeedTable(n)
    /\ cols = <<"NAME", "CODE">>
    /\ page_structure = 0
    /\ show_add_column_modal = FALSE
    /\ search = <<>>
    /\ saves = 0
    /\ run = Quiet
    /\ sv = NoSave

\* a script run in which no widget fires: lines 143-204 only load and render
Render(t, msgs, leaked, g) ==
    LET rd == get_data(t, g)
    IN  [msgs |-> msgs, exc |-> rd.exc, leaked |-> leaked + rd.leaked]

\* the "⋮" button (lines 127-128)
ToggleModal ==
    /\ show_add_column_modal' = ~show_add_column_modal
    /\ \E g \in GetFaults : run' = Render(db, {}, 0, g)
    /\ sv' = NoSave
    /\ UNCHANGED <<db, cols, page_structure, search, saves>>

\* the "Add Column" form submitted (lines 130-141)
SubmitAddColumn ==
    /\ show_add_column_modal
    /\ \E new_column \in ColumnNames :
        IF new_column = ""
        THEN /\ \E g \in GetFaults : run' = Render(db, {"warning_blank"}, 0, g)
             /\ UNCHANGED <<db, cols, show_add_column_modal>>
        ELSE \E fault \in AddFaults :
             \E r \in {add_column_to_snowflake(db, cols, new_column, fault)} :
                IF r.returned
                THEN /\ db' = r.db
                     /\ cols' = r.cols
                     /\ show_add_column_modal' = FALSE
                     /\ \E g \in GetFaults : run' = Render(r.db, r.msgs, r.leaked, g)
                ELSE /\ run' = [msgs |-> r.msgs, exc |-> r.exc, leaked |-> r.leaked]
                     /\ UNCHANGED <<db, cols, show_add_column_modal>>
    /\ sv' = NoSave
    /\ UNCHANGED <<page_structure, search, saves>>

\* the filter box (line 144)
SetSearch ==
    /\ \E kw \in Keywords \ {search} : search' = kw
    /\ \E g \in GetFaults : run' = Render(db, {}, 0, g)
    /\ sv' = NoSave
    /\ UNCHANGED <<db, cols, page_structure, show_add_column_modal, saves>>

\* the grid edits made before one click on Save: none, or up to MaxEdits
\* cells of one row of the displayed page
Edits(df_page) ==
    {[x \in {} |-> NONE]}
        \cup UNION {{[x \in {<<i, c>> : c \in cset} |-> NewVal(x[2])] :
                        cset \in {S \in SUBSET Range(cols) :
                                    S # {} /\ Cardinality(S) <= MaxEdits}} :
                    i \in DOMAIN df_page}

\* the "Save Changes" button (lines 143-188)
Save ==
    /\ saves < MaxSaves
    /\ \E g \in GetFaults :
        IF ~get_data(db, g).ok
        THEN /\ run' = Render(db, {}, 0, g)
             /\ sv' = NoSave
             /\ UNCHANGED <<db, saves>>
        ELSE \E df1 \in {get_data(db, g).df} :
             \E df1_filtered \in {Filtered(df1, cols, search)} :
             \E df1_page \in {PageOf(df1_filtered, page_structure)} :
             \E edits \in Edits(df1_page), rep \in NullReps :
             \E edited_df1 \in {GridData(df1_page, edits, rep)} :
             \E n \in {Len(Changes(df1_filtered, edited_df1, cols, unique_col, 1))} :
             \E f \in IF n > 0 /\ ~RaisesKeyError(df1_filtered, edited_df1)
                      THEN SaveFaults(n) ELSE {NoFault} :
             \E r \in {update_changed_cells(db, df1_filtered, edited_df1, cols,
                                          unique_col, f)} :
                /\ db' = r.db
                /\ sv' = [r.sv EXCEPT !.idx = FilteredIdx(df1, cols, search, 1)]
                /\ run' = [msgs |-> r.msgs, exc |-> r.exc, leaked |-> r.leaked]
                /\ saves' = saves + 1
    /\ UNCHANGED <<cols, page_structure, show_add_column_modal, search>>

\* the "Previous" button (lines 143-198)
Previous ==
    /\ \E g \in GetFaults :
        IF get_data(db, g).ok /\ page_structure > 0
        THEN /\ page_structure' = page_structure - 1
             /\ \E g2 \in GetFaults : run' = Render(db, {}, 0, g2)
        ELSE /\ run' = Render(db, {}, 0, g)
             /\ UNCHANGED page_structure
    /\ sv' = NoSave
    /\ UNCHANGED <<db, cols, show_add_column_modal, search, saves>>

\* the "Next" button (lines 143-204)
NextPage ==
    /\ \E g \in GetFaults :
        LET rd == get_data(db, g)
            pages == total_pages(Len(Filtered(rd.df, cols, search)))
        IN  IF rd.ok /\ page_structure < pages - 1
            THEN /\ page_structure' = page_structure + 1
                 /\ \E g2 \in GetFaults : run' = Render(db, {}, 0, g2)
            ELSE /\ run' = Render(db, {}, 0, g)
                 /\ UNCHANGED page_structure
    /\ sv' = NoSave
    /\ UNCHANGED <<db, cols, show_add_column_modal, search, saves>>

Next ==
    \/ ToggleModal
    \/ SubmitAddColumn
    \/ SetSearch
    \/ Save
    \/ Previous
    \/ NextPage

Spec == Init /\ [][Next]_vars

-----------------------------------------------------------------------------
(* Properties.  They read what the last click on Save did from sv and run. *)

\* two cells hold different values: not both null, and not the same value
Differs(a, b) == ~(IsNa(a) /\ IsNa(b)) /\ a # b

SameLength == Len(sv.edited) = Len(sv.original)

\* the positions at which the original and the edited snapshot differ
DiffCells ==
    {x \in (DOMAIN sv.original) \X Range(cols) :
        x[1] <= Len(sv.edited)
        /\ Differs(sv.original[x[1]][x[2]], sv.edited[x[1]][x[2]])}

RECURSIVE Flatten(_, _)
Flatten(rows, i) ==
    IF i > Len(rows) THEN <<>> ELSE rows[i] \o Flatten(rows, i + 1)

IsPrefix(s, t) == Len(s) <= Len(t) /\ s = SubSeq(t, 1, Len(s))

\* C1: when the original and the edited snapshot have the same length and
\* exactly one cell (row i, column c) differs, update_changed_cells builds
\* exactly one change, with the original row i's CODE as key, c as column and
\* the edited cell as new value, and, once it holds a cursor, executes exactly
\* one UPDATE, that one.
C1_OneCellOneChange ==
    (sv.called /\ SameLength /\ Cardinality(DiffCells) = 1) =>
        \A x \in DiffCells :
            /\ sv.changes = <<[key |-> sv.original[x[1]][unique_col],
                               column |-> x[2],
                               new_value |-> sv.edited[x[1]][x[2]]]>>
            /\ IsPrefix(sv.stmts, sv.changes)
            /\ (run.exc = "none" => sv.stmts = sv.changes)

C1_Witness ==
    /\ sv.called /\ SameLength /\ Cardinality(DiffCells) = 1
    /\ Len(sv.stmts) = 1 /\ sv.committed

\* C2: a save whose edited snapshot equals the original one (null cells
\* included, whichever null marker the grid hands back) detects no change:
\* the change list is empty, no connection is opened, no UPDATE is executed,
\* nothing is committed, the table is untouched and the outcome is the
\* "no changes" message, not an error.
C2_NoEditNoChange ==
    (sv.called /\ SameLength /\ DiffCells = {}) =>
        /\ sv.changes = <<>>
        /\ sv.conns = 0
        /\ sv.stmts = <<>>
        /\ ~sv.committed /\ sv.failed = "none"
        /\ db = sv.before
        /\ run = [msgs |-> {"info_no_changes"}, exc |-> "none", leaked |-> 0]

C2_Witness ==
    /\ sv.called /\ sv.edited = sv.original /\ Len(sv.original) > 0
    /\ \E i \in DOMAIN sv.original, c \in Range(cols) : IsNa(sv.original[i][c])
    /\ run.msgs = {"info_no_changes"}

\* C3: if an UPDATE of the batch fails, exactly one error is shown, no
\* success message, and none of the batch's statements is committed: the
\* table is as it was before the batch.
C3_BatchFailureAtomic ==
    sv.failed = "execute" =>
        /\ run.msgs = {"error_update"}
        /\ ~sv.committed
        /\ db = sv.before

\* C4: at every call of update_changed_cells by the Save button, the original
\* and the edited snapshot have the same number of rows (so that row i of one
\* is row i of the other).
C4_SameRowCount == sv.called => (SameLength /\ ~sv.keyerr)

\* the table the user asked for: the displayed rows as edited, the others as
\* they were
Expected ==
    [i \in DOMAIN sv.before |->
        IF \E j \in DOMAIN sv.idx : sv.idx[j] = i
        THEN LET j == CHOOSE j \in DOMAIN sv.idx : sv.idx[j] = i
             IN  [c \in DOMAIN sv.before[i] |-> ToSql(sv.edited[j][c])]
        ELSE sv.before[i]]

KeysDistinct(t) ==
    \A i, j \in DOMAIN t : i # j => t[i][unique_col] # t[j][unique_col]

\* C5: after a save that ends with the success message, the snapshots having
\* the same rows in the same order and the CODE values being distinct (before
\* and after the edit), every edited cell holds its edited value in the table
\* and every other cell is unmodified.
C5_ChangesPersisted ==
    (/\ sv.called /\ SameLength /\ ~sv.keyerr
     /\ run.msgs = {"success_update"}
     /\ KeysDistinct(sv.before) /\ KeysDistinct(Expected)) => db = Expected

\* C6: when the CODE of a row differs between original and edited, every
\* change of that row (the CODE change itself and the other changed cells) is
\* emitted with the original CODE as key, never the edited one, and the
\* UPDATEs executed are these changes.
C6_KeyStability ==
    sv.called =>
        /\ Flatten(sv.byrow, 1) = sv.changes
        /\ IsPrefix(sv.stmts, sv.changes)
        /\ \A i \in DOMAIN sv.byrow :
            Differs(sv.original[i][unique_col], sv.edited[i][unique_col]) =>
                /\ \A c \in Range(cols) :
                    Differs(sv.original[i][c], sv.edited[i][c]) =>
                        \E k \in DOMAIN sv.byrow[i] :
                            sv.byrow[i][k] = [key |-> sv.original[i][unique_col],
                                              column |-> c,
                                              new_value |-> sv.edited[i][c]]
                /\ \A k \in DOMAIN sv.byrow[i] :
                    /\ sv.byrow[i][k].key = sv.original[i][unique_col]
                    /\ sv.byrow[i][k].key # sv.edited[i][unique_col]

C6_Witness ==
    /\ sv.called /\ sv.committed
    /\ \E i \in DOMAIN sv.byrow :
        /\ Differs(sv.original[i][unique_col], sv.edited[i][unique_col])
        /\ Len(sv.byrow[i]) >= 2
        /\ sv.stmts = sv.byrow[i]

\* C7: a cell that is null in the original and in the edited snapshot is
\* never reported as a change, whichever null marker each side holds and
\* whatever the other cells of its row hold.
C7_NullEquivalence ==
    sv.called =>
        /\ Len(Flatten(sv.byrow, 1)) = Len(sv.changes)
        /\ \A i \in DOMAIN sv.byrow, c \in Range(cols) :
            (IsNa(sv.original[i][c]) /\ IsNa(sv.edited[i][c])) =>
                \A k \in DOMAIN sv.byrow[i] : sv.byrow[i][k].column # c

C7_Witness ==
    /\ sv.called
    /\ \E i \in DOMAIN sv.byrow, c \in Range(cols) :
        /\ sv.original[i][c] = NONE /\ sv.edited[i][c] = NAN
        /\ sv.byrow[i] # <<>>

\* C8: no operation ends with a connection it opened still open, and none
\* fails in its cleanup.
C8_ConnectionsReleased == run.leaked = 0 /\ run.exc # "UnboundLocalError"

\* the filtered set the page shows now
FilteredNow == Filtered(get_data(db, "none").df, cols, search)

\* C9: total_pages is ceil(n / 3) for a filtered set of n rows; Previous
\* leaves the page index alone on page 0 and Next on the last page; and when
\* the filter matches no row the page shown is empty, total_pages is 0 and
\* Previous and Next both leave the page index alone.
C9_PaginationNoOps ==
    [][LET n == Len(FilteredNow)
           pages == total_pages(n)
       IN  /\ pages * rows_per_page >= n
           /\ (pages - 1) * rows_per_page < n
           /\ n = 0 => (pages = 0 /\ PageOf(FilteredNow, page_structure) = <<>>)
           /\ (Previous /\ (page_structure = 0 \/ n = 0))
                 => page_structure' = page_structure
           /\ (NextPage /\ (page_structure = pages - 1 \/ n = 0))
                 => page_structure' = page_structure]_vars

\* C10: the stored page index is always a page of the filtered set:
\* 0 <= page_structure <= max(total_pages - 1, 0).
C10_PageIndexValid ==
    LET pages == total_pages(Len(FilteredNow))
    IN  /\ 0 <= page_structure
        /\ page_structure <= (IF pages >= 1 THEN pages - 1 ELSE 0)

====
